---- MODULE Spec2Model ----
(***************************************************************************)
(* Model of the request-dispatch and payload-negotiation layer             *)
(* (web_util.ts): the Bounded Body Stream, the decode path (receive), the  *)
(* per-method dispatch, the router and the accept negotiation.             *)
(*                                                                         *)
(* Each part of the program has its own specification over the shared      *)
(* variables; the variables a specification does not use stay at their     *)
(* idle value.                                                             *)
(***************************************************************************)
EXTENDS Integers, Sequences, FiniteSets, TLC

\* ------------------------------------------------------------------ bounds
\* Largest number of bytes a request body holds.
MaxTotal == 3
\* Largest chunk the source stream hands out in one read.
MaxChunk == 2

\* ------------------------------------------------------------- variables
VARIABLES
  request,      \* the Request: headers and whether it carries a body
  source,       \* request.body: the chunks it has not handed out yet
  sourceLock,   \* who holds request.body's reader: "none", "bounded", "decoder"
  sourceRead,   \* number of bytes read from request.body so far
  body,         \* what streamOfRequestBody returned: "unset", "undefined", "bounded", "raw"
  budget,       \* the n ReadNBytesSource was constructed with
  remaining,    \* ReadNBytesSource.#remaining
  reader,       \* ReadNBytesSource.#reader !== undefined
  queue,        \* the derived stream's internal queue of enqueued chunks
  closed,       \* controller.close() has been called on the derived stream
  yielded,      \* every byte the derived stream has enqueued, in order
  lastPull,     \* which path the last pull() took
  bytes,        \* the decoder's buffer (all chunks concatenated)
  pc,           \* receive's position: "start", "decoding", "done"
  outcome,      \* what receive returned or threw
  routes,       \* the flat Routes the router was created from: (pattern, Route) in key order
  table,        \* the compiled route table: (pattern, dispatch function) in order
  rRequest,     \* the Request the router handles: method, url, Accept header
  rpc,          \* router's position: "accept", "match", "handler", "done"; "calls"
  idx,          \* the table entry the router's loop tests next
  tested,       \* the table entries whose pattern has been tested, in order
  dispatched,   \* the table entries whose dispatch function has been called, in order
  invoked,      \* the handlers invoked: (table entry, handler), in order
  accepted,     \* request[acceptsSymbol]: "undefined" or the stored MIME type
  negotiations, \* number of calls of accepts() for this request
  calls,        \* the assertAcceptsSupported and send calls made, with what each gave
  thrown,       \* what the invoked handler threw
  result,       \* what router returned or threw
  group,        \* the arguments of defineGroup: prefix and list of Routes
  defined,      \* the Routes defineGroup returned
  flattened,    \* the Routes flattenRoutes returned
  gpc,          \* route definition's position: "group", "defined", "flattened"
  tasks,        \* the requests in handling at once, each with its own state
  listeners,    \* shutdown.ts listeners: the registered listeners, in order
  exiting,      \* shutdown.ts exiting
  signalsOn,    \* exit0 is registered as listener of SIGINT and SIGTERM
  exitCalls,    \* the calls of exit in progress: the listener each one awaits
  invocations,  \* how many times each shutdown listener has been invoked
  exited        \* Deno.exit has been called

decodeVars == << request, source, sourceLock, sourceRead, body, budget, remaining,
                 reader, queue, closed, yielded, lastPull, bytes, pc, outcome >>

routerVars == << routes, table, rRequest, rpc, idx, tested, dispatched, invoked, accepted, negotiations,
                 calls, thrown, result >>

defineVars == << group, defined, flattened, gpc >>

shutdownVars == << listeners, exiting, signalsOn, exitCalls, invocations, exited >>

vars == << decodeVars, routerVars, defineVars, tasks, shutdownVars >>

\* ---------------------------------------------------------------- helpers
Min(a, b) == IF a <= b THEN a ELSE b

RECURSIVE Flatten(_)
\* The concatenation of a sequence of chunks.
Flatten(chunks) ==
  IF chunks = <<>> THEN <<>> ELSE Head(chunks) \o Flatten(Tail(chunks))

\* The first n elements of s (all of s when it is shorter; none when n <= 0).
Prefix(s, n) == IF n <= 0 THEN <<>> ELSE SubSeq(s, 1, Min(n, Len(s)))

RECURSIVE Compositions(_)
\* Every way to cut n bytes into chunks of 1..MaxChunk bytes (the chunk lengths).
Compositions(n) ==
  IF n = 0 THEN { <<>> }
  ELSE UNION { { <<k>> \o c : c \in Compositions(n - k) } : k \in 1..Min(n, MaxChunk) }

RECURSIVE ChunksFrom(_, _)
\* The chunks of the given lengths over the bytes first, first+1, ...: byte i of
\* the body has the value i, so order and position are visible in every buffer.
ChunksFrom(lens, first) ==
  IF lens = <<>> THEN <<>>
  ELSE << [i \in 1..Head(lens) |-> first + i - 1] >>
         \o ChunksFrom(Tail(lens), first + Head(lens))

\* Every body of at most MaxTotal bytes in every chunking.
Sources == { ChunksFrom(c, 1) : c \in UNION { Compositions(n) : n \in 0..MaxTotal } }

\* ------------------------------------------------------------ the request
\* Content-Length header values, by the shape of their text: absent, decimal
\* digits ("0", "1", ...), a minus sign and digits ("-1"), digits followed by
\* other characters ("1abc"), text without a leading number ("abc"), and digits
\* beyond Number.MAX_SAFE_INTEGER ("9007199254740993").
ContentLengths ==
  { [kind |-> "absent", n |-> 0], [kind |-> "text", n |-> 0], [kind |-> "huge", n |-> 0],
    [kind |-> "negative", n |-> 1], [kind |-> "digitsThenText", n |-> 1] }
  \cup { [kind |-> "digits", n |-> k] : k \in 0..(MaxTotal + 1) }

\* Content-Type media types as sent ("" is an absent header).
ContentTypes == { "", "application/json", "Application/JSON", "application/x-msgpack" }

\* charset parameters as sent ("absent": the header has none).
Charsets == { "absent", "utf-8", "UTF-8", "iso-8859-1" }

\* The schema argument of receive: none, or one whose safeParse succeeds or fails
\* on the decoded value.
Schemas == { "none", "passes", "fails" }

Requests ==
  { r \in [ hasBody : BOOLEAN, chunks : Sources, contentLength : ContentLengths,
            contentType : ContentTypes, charset : Charsets, schema : Schemas,
            badByte : 0..MaxTotal ] :
      /\ (~r.hasBody => r.chunks = <<>>)
      /\ r.badByte <= Len(Flatten(r.chunks)) }

\* String.prototype.toLowerCase on the header values of the model.
ToLowerCase(s) ==
  CASE s = "Application/JSON" -> "application/json"
    [] s = "UTF-8" -> "utf-8"
    [] OTHER -> s

\* parseInt(text, 10): the leading integer of the text, NaN when it has none.
\* "safe" is Number.isSafeInteger of the result.
ParseInt(h) ==
  CASE h.kind = "digits" -> [nan |-> FALSE, safe |-> TRUE, v |-> h.n]
    [] h.kind = "digitsThenText" -> [nan |-> FALSE, safe |-> TRUE, v |-> h.n]
    [] h.kind = "negative" -> [nan |-> FALSE, safe |-> TRUE, v |-> 0 - h.n]
    [] h.kind = "huge" -> [nan |-> FALSE, safe |-> FALSE, v |-> 0]
    [] OTHER -> [nan |-> TRUE, safe |-> FALSE, v |-> 0]

\* The MIME types with a registered decoder.
decoders ==
  { "application/json", "application/jsonc", "application/msgpack", "application/toml",
    "application/x-toml", "application/yaml", "application/x-yaml", "application/cbor",
    "application/x-cbor", "application/json5", "application/x-json5" }

\* streamOfRequestBody: undefined without a body or with a Content-Length that
\* parseInt cannot turn into a safe integer; the bounded stream when it can; the
\* raw body without the header.
StreamOfRequestBody(r) ==
  IF ~r.hasBody THEN [kind |-> "undefined", n |-> 0]
  ELSE IF r.contentLength.kind # "absent"
    THEN LET contentLength == ParseInt(r.contentLength) IN
         IF contentLength.nan \/ ~contentLength.safe
           THEN [kind |-> "undefined", n |-> 0]
           ELSE [kind |-> "bounded", n |-> contentLength.v]
    ELSE [kind |-> "raw", n |-> 0]

NoOutcome == [kind |-> "none"]

\* A Response: its status, its body (the error text of a JSON error body, or a
\* tag naming who built it) and its Content-Type header.
ResponseJson(status, error) ==
  [status |-> status, body |-> error, contentType |-> "application/json"]

\* new ResponseError(response): the thrown value, carrying its response.
ResponseError(status, error) ==
  [kind |-> "ResponseError", response |-> ResponseJson(status, error)]

\* receive, from its first line to the call of the decoder: the ResponseError
\* it throws, or NoOutcome when the decoder is called.
ReceiveChecks(r, b) ==
  IF b.kind = "undefined" THEN ResponseError(400, "missing body")
  ELSE IF r.contentType = "" THEN ResponseError(400, "missing content-type")
  ELSE IF r.charset # "absent" /\ ToLowerCase(r.charset) # "utf-8"
    THEN ResponseError(415, "unsupported charset")
  ELSE IF ToLowerCase(r.contentType) \notin decoders
    THEN ResponseError(415, "unsupported content-type")
  ELSE NoOutcome

\* The decoder's parse of the buffered bytes: it throws when the bytes are
\* malformed for the format (here: they contain the request's bad byte).
ParseFails(r, buf) == \E i \in 1..Len(buf) : buf[i] = r.badByte

\* receive after the decoder has buffered the body: the parse, then the schema.
ReceiveFinish(r, buf) ==
  IF ParseFails(r, buf) THEN [kind |-> "Error", name |-> "decode"]
  ELSE IF r.schema = "none" THEN [kind |-> "value", validated |-> FALSE, data |-> buf]
  ELSE IF r.schema = "fails" THEN ResponseError(400, "invalid request payload")
  ELSE [kind |-> "value", validated |-> TRUE, data |-> buf]

\* The decode path's variables while receive is not called.
InitDecodeIdle ==
  /\ request = [ hasBody |-> FALSE, chunks |-> <<>>,
                 contentLength |-> [kind |-> "absent", n |-> 0], contentType |-> "",
                 charset |-> "absent", schema |-> "none", badByte |-> 0 ]
  /\ source = <<>>
  /\ sourceLock = "none"
  /\ sourceRead = 0
  /\ body = "unset"
  /\ budget = 0
  /\ remaining = 0
  /\ reader = FALSE
  /\ queue = <<>>
  /\ closed = FALSE
  /\ yielded = <<>>
  /\ lastPull = "none"
  /\ bytes = <<>>
  /\ pc = "idle"
  /\ outcome = NoOutcome

\* The router's variables while no request is routed.
RouterIdle ==
  /\ routes = <<>>
  /\ table = <<>>
  /\ rRequest = [method |-> "GET", url |-> "/api", accept |-> [present |-> FALSE, entries |-> <<>>]]
  /\ rpc = "idle"
  /\ idx = 1
  /\ tested = <<>>
  /\ dispatched = <<>>
  /\ invoked = <<>>
  /\ accepted = "undefined"
  /\ negotiations = 0
  /\ calls = <<>>
  /\ thrown = NoOutcome
  /\ result = NoOutcome

\* The route definition's variables while no routes are defined.
DefineIdle ==
  /\ group = [prefix |-> <<>>, list |-> <<>>]
  /\ defined = <<>>
  /\ flattened = <<>>
  /\ gpc = "idle"

\* No requests are in handling at once.
TasksIdle == tasks = <<>>

\* The shutdown module's variables while no shutdown is modelled.
ShutdownIdle ==
  /\ listeners = <<>>
  /\ exiting = FALSE
  /\ signalsOn = FALSE
  /\ exitCalls = <<>>
  /\ invocations = <<>>
  /\ exited = FALSE

\* ------------------------------------------------------------ decode path
InitDecode ==
  /\ ShutdownIdle
  /\ DefineIdle
  /\ TasksIdle
  /\ request \in Requests
  /\ source = request.chunks
  /\ sourceLock = "none"
  /\ sourceRead = 0
  /\ body = "unset"
  /\ budget = 0
  /\ remaining = 0
  /\ reader = FALSE
  /\ queue = <<>>
  /\ closed = FALSE
  /\ yielded = <<>>
  /\ lastPull = "none"
  /\ bytes = <<>>
  /\ pc = "start"
  /\ outcome = NoOutcome
  /\ RouterIdle

\* receive up to its first await: streamOfRequestBody (which constructs the
\* bounded stream), then the header checks.
ReceiveStart ==
  /\ pc = "start"
  /\ LET b == StreamOfRequestBody(request)
         failure == ReceiveChecks(request, b)
     IN /\ body' = b.kind
        /\ budget' = b.n
        /\ remaining' = b.n
        /\ outcome' = failure
        /\ pc' = IF failure = NoOutcome THEN "decoding" ELSE "done"
  /\ UNCHANGED << routerVars, defineVars, tasks, shutdownVars >>
  /\ UNCHANGED << request, source, sourceLock, sourceRead, reader, queue, closed,
                  yielded, lastPull, bytes >>

\* The derived stream calls pull while it is open and its queue is below the
\* high-water mark of one chunk.
CanPull == body = "bounded" /\ ~closed /\ queue = <<>>

\* pull with the budget tested after the read: one more chunk is taken from
\* the source and dropped before the close.
PullExhaustedAfterRead ==
  /\ CanPull
  /\ remaining <= 0
  /\ source' = IF source = <<>> THEN source ELSE Tail(source)
  /\ sourceRead' = IF source = <<>> THEN sourceRead ELSE sourceRead + Len(Head(source))
  /\ closed' = TRUE
  /\ lastPull' = "exhausted"
  /\ UNCHANGED << routerVars, defineVars, tasks, shutdownVars >>
  /\ UNCHANGED << request, sourceLock, body, budget, remaining,
                  reader, queue, yielded, bytes, pc, outcome >>

\* pull, remaining <= 0: close without touching the source.
PullExhausted ==
  /\ CanPull
  /\ remaining <= 0
  /\ closed' = TRUE
  /\ lastPull' = "exhausted"
  /\ UNCHANGED << routerVars, defineVars, tasks, shutdownVars >>
  /\ UNCHANGED << request, source, sourceLock, sourceRead, body, budget, remaining,
                  reader, queue, yielded, bytes, pc, outcome >>

\* pull, the source is at its end: close, release the reader.
PullDone ==
  /\ CanPull
  /\ remaining > 0
  /\ source = <<>>
  /\ closed' = TRUE
  /\ reader' = FALSE
  /\ sourceLock' = "none"
  /\ lastPull' = "done"
  /\ UNCHANGED << routerVars, defineVars, tasks, shutdownVars >>
  /\ UNCHANGED << request, source, sourceRead, body, budget, remaining, queue,
                  yielded, bytes, pc, outcome >>

\* pull, the chunk fits: forward it whole, keep the reader.
PullFits ==
  /\ CanPull
  /\ remaining > 0
  /\ source # <<>>
  /\ LET value == Head(source) IN
       /\ Len(value) <= remaining
       /\ queue' = << value >>
       /\ yielded' = yielded \o value
       /\ remaining' = remaining - Len(value)
       /\ sourceRead' = sourceRead + Len(value)
  /\ source' = Tail(source)
  /\ reader' = TRUE
  /\ sourceLock' = "bounded"
  /\ lastPull' = "fits"
  /\ UNCHANGED << routerVars, defineVars, tasks, shutdownVars >>
  /\ UNCHANGED << request, body, budget, closed, bytes, pc, outcome >>

\* PullTruncates with the whole chunk forwarded instead of the prefix that fits.
PullTruncatesWholeChunk ==
  /\ CanPull
  /\ remaining > 0
  /\ source # <<>>
  /\ LET value == Head(source) IN
       /\ Len(value) > remaining
       /\ queue' = << value >>
       /\ yielded' = yielded \o value
       /\ sourceRead' = sourceRead + Len(value)
  /\ remaining' = 0
  /\ source' = Tail(source)
  /\ reader' = FALSE
  /\ sourceLock' = "none"
  /\ lastPull' = "truncates"
  /\ UNCHANGED << routerVars, defineVars, tasks, shutdownVars >>
  /\ UNCHANGED << request, body, budget, closed, bytes, pc, outcome >>

\* pull, the chunk is larger than the budget left: forward the prefix that
\* fits, release the reader.
PullTruncates ==
  /\ CanPull
  /\ remaining > 0
  /\ source # <<>>
  /\ LET value == Head(source) IN
       /\ Len(value) > remaining
       /\ queue' = << SubSeq(value, 1, remaining) >>
       /\ yielded' = yielded \o SubSeq(value, 1, remaining)
       /\ sourceRead' = sourceRead + Len(value)
  /\ remaining' = 0
  /\ source' = Tail(source)
  /\ reader' = FALSE
  /\ sourceLock' = "none"
  /\ lastPull' = "truncates"
  /\ UNCHANGED << routerVars, defineVars, tasks, shutdownVars >>
  /\ UNCHANGED << request, body, budget, closed, bytes, pc, outcome >>

\* The decoder's for-await loop takes the next chunk of the bounded stream.
DecoderRead ==
  /\ pc = "decoding"
  /\ body = "bounded"
  /\ queue # <<>>
  /\ bytes' = bytes \o Head(queue)
  /\ queue' = Tail(queue)
  /\ UNCHANGED << routerVars, defineVars, tasks, shutdownVars >>
  /\ UNCHANGED << request, source, sourceLock, sourceRead, body, budget, remaining,
                  reader, closed, yielded, lastPull, pc, outcome >>

\* The decoder's for-await loop takes the next chunk of the raw request body.
DecoderReadRaw ==
  /\ pc = "decoding"
  /\ body = "raw"
  /\ source # <<>>
  /\ bytes' = bytes \o Head(source)
  /\ sourceRead' = sourceRead + Len(Head(source))
  /\ source' = Tail(source)
  /\ sourceLock' = "decoder"
  /\ UNCHANGED << routerVars, defineVars, tasks, shutdownVars >>
  /\ UNCHANGED << request, body, budget, remaining, reader, queue, closed, yielded,
                  lastPull, pc, outcome >>

\* The stream the decoder reads has ended: parse, validate, return or throw.
DecoderEnd ==
  /\ pc = "decoding"
  /\ \/ body = "bounded" /\ queue = <<>> /\ closed
     \/ body = "raw" /\ source = <<>>
  /\ outcome' = ReceiveFinish(request, bytes)
  /\ sourceLock' = IF body = "raw" THEN "none" ELSE sourceLock
  /\ pc' = "done"
  /\ UNCHANGED << routerVars, defineVars, tasks, shutdownVars >>
  /\ UNCHANGED << request, source, sourceRead, body, budget, remaining, reader,
                  queue, closed, yielded, lastPull, bytes >>

NextDecode ==
  \/ ReceiveStart
  \/ PullExhausted
  \/ PullDone
  \/ PullFits
  \/ PullTruncates
  \/ DecoderRead
  \/ DecoderReadRaw
  \/ DecoderEnd

SpecDecode == InitDecode /\ [][NextDecode]_vars

\* ------------------------------------------------------ accept negotiation
\* Largest number of media ranges in an Accept header.
MaxAccept == 2
\* Largest number of assertAcceptsSupported and send calls on one request.
MaxCalls == 3

\* The MIME types with a registered encoder, in registration order.
encoders ==
  << "application/json", "application/msgpack", "application/x-msgpack",
     "application/toml", "application/x-toml", "application/yaml",
     "application/x-yaml", "application/cbor", "application/x-cbor",
     "application/json5", "application/x-json5" >>

\* Media ranges of an Accept header, with q in tenths (q=0, q=0.5, q=1).
Ranges == { "*/*", "application/json", "application/yaml", "application/xml" }
Qualities == { 0, 5, 10 }
AcceptEntries == [ range : Ranges, q : Qualities ]

\* Accept headers: absent, or up to MaxAccept media ranges (none: an empty value).
AcceptHeaders ==
  { [present |-> FALSE, entries |-> <<>>] }
  \cup { [present |-> TRUE, entries |-> e] :
           e \in UNION { [1..n -> AcceptEntries] : n \in 0..MaxAccept } }

\* The type and the subtype of a media type or range.
TypeOf(m) == IF m = "*/*" THEN "*" ELSE "application"
SubtypeOf(m) == IF m = "*/*" THEN "*" ELSE m

\* specify: how specifically the range e (the o-th of the header) matches the
\* type; not defined when it does not match.
Specify(type, e, o) ==
  LET typeMatch == TypeOf(e.range) = TypeOf(type)
      subMatch == SubtypeOf(e.range) = SubtypeOf(type)
  IN IF (~typeMatch /\ TypeOf(e.range) # "*") \/ (~subMatch /\ SubtypeOf(e.range) # "*")
       THEN [defined |-> FALSE, o |-> o, q |-> 0, s |-> 0]
       ELSE [defined |-> TRUE, o |-> o, q |-> e.q,
             s |-> (IF typeMatch THEN 4 ELSE 0) + (IF subMatch THEN 2 ELSE 0)]

RECURSIVE GetMediaTypePriority(_, _, _, _)
\* getMediaTypePriority: the most specific range matching the type (then the
\* higher q, then the later one), folded over the ranges from the o-th on.
GetMediaTypePriority(type, entries, o, priority) ==
  IF o > Len(entries) THEN priority
  ELSE LET spec == Specify(type, entries[o], o)
           better == /\ spec.defined
                     /\ \/ priority.s < spec.s
                        \/ priority.s = spec.s /\ priority.q < spec.q
                        \/ priority.s = spec.s /\ priority.q = spec.q /\ priority.o < spec.o
       IN GetMediaTypePriority(type, entries, o + 1, IF better THEN spec ELSE priority)

\* compareSpecs: a sorts before b (q descending, s descending, o, then i ascending).
SortsBefore(a, i, b, j) ==
  \/ a.q > b.q
  \/ a.q = b.q /\ a.s > b.s
  \/ a.q = b.q /\ a.s = b.s /\ a.o < b.o
  \/ a.q = b.q /\ a.s = b.s /\ a.o = b.o /\ i < j

\* preferredMediaTypes(accept, types)[0]: the first of the acceptable types
\* (q > 0) in compareSpecs order; "undefined" when none is acceptable.
PreferredMediaType(entries, types) ==
  LET priority(i) ==
        GetMediaTypePriority(types[i], entries, 1, [defined |-> TRUE, o |-> 0, q |-> 0, s |-> 0])
      ok == { i \in 1..Len(types) : priority(i).q > 0 }
  IN IF ok = {} THEN "undefined"
     ELSE types[CHOOSE i \in ok :
                  \A j \in ok \ {i} : SortsBefore(priority(i), i, priority(j), j)]

\* accepts(request, ...types): the first type without an Accept value, else the
\* preferred one.
Accepts(accept, types) ==
  IF ~accept.present \/ accept.entries = <<>> THEN types[1]
  ELSE PreferredMediaType(accept.entries, types)

\* The responseInit slot in the log of a call that takes none.
NoInit == [hasStatus |-> FALSE, status |-> 0, contentType |-> ""]

\* The responseInit argument of send: an optional status, and a Content-Type
\* among the extra headers ("" when there is none).
SendInits ==
  { [hasStatus |-> FALSE, status |-> 0, contentType |-> ""],
    [hasStatus |-> TRUE, status |-> 201, contentType |-> "text/plain"] }

NotAcceptable == ResponseError(406, "no acceptable content-type found")

\* assertAcceptsSupported with a failing negotiation stored all the same.
AssertAcceptsSupportedFirstEncoder(req) ==
  LET contentType == Accepts(req.accept, encoders) IN
  IF contentType = "undefined"
    THEN [kind |-> "thrown", error |-> NotAcceptable, store |-> "undefined"]
    ELSE [kind |-> "returned", error |-> NoOutcome, store |-> encoders[1]]

\* assertAcceptsSupported: negotiate; throw 406 or store the type on the request.
AssertAcceptsSupported(req) ==
  LET contentType == Accepts(req.accept, encoders) IN
  IF contentType = "undefined"
    THEN [kind |-> "thrown", error |-> NotAcceptable, store |-> "undefined"]
    ELSE [kind |-> "returned", error |-> NoOutcome, store |-> contentType]

\* send with the caller's headers applied after the negotiated Content-Type.
SendKeepsCallerContentType(cached, req, init) ==
  LET contentType == IF cached # "undefined" THEN cached
                     ELSE Accepts(req.accept, encoders) IN
  IF contentType = "undefined"
    THEN [kind |-> "thrown", error |-> NotAcceptable]
    ELSE [kind |-> "returned",
          response |-> [status |-> IF init.hasStatus THEN init.status ELSE 200,
                        body |-> "encoded",
                        contentType |-> IF init.contentType # ""
                                          THEN init.contentType
                                          ELSE contentType]]

\* send: the stored type or, without one, a negotiation; 406 when there is no
\* type; else the response with the type as Content-Type (set after the
\* caller's headers) and the caller's status or 200.
Send(cached, req, init) ==
  LET contentType == IF cached # "undefined" THEN cached
                     ELSE Accepts(req.accept, encoders) IN
  IF contentType = "undefined"
    THEN [kind |-> "thrown", error |-> NotAcceptable]
    ELSE [kind |-> "returned",
          response |-> [status |-> IF init.hasStatus THEN init.status ELSE 200,
                        body |-> "encoded",
                        contentType |-> contentType]]

\* none(): the empty 204 response.
None == [status |-> 204, body |-> "", contentType |-> ""]

\* One call of assertAcceptsSupported on the request, by the router or directly.
DoAssertAcceptsSupported ==
  LET a == AssertAcceptsSupported(rRequest) IN
    /\ negotiations' = negotiations + 1
    /\ accepted' = IF a.kind = "returned" THEN a.store ELSE accepted
    /\ calls' = Append(calls, [op |-> "assert", cached |-> accepted, init |-> NoInit,
                               kind |-> a.kind, contentType |-> a.store, status |-> 0])

\* send negotiating on every call, whatever is stored on the request.
DoSendRenegotiates(init) ==
  LET r == Send("undefined", rRequest, init) IN
    /\ negotiations' = negotiations + 1
    /\ accepted' = accepted
    /\ calls' = Append(calls, [op |-> "send", cached |-> accepted, init |-> init,
                               kind |-> r.kind,
                               contentType |-> IF r.kind = "returned"
                                                 THEN r.response.contentType
                                                 ELSE "undefined",
                               status |-> IF r.kind = "returned"
                                            THEN r.response.status ELSE 406])

\* One call of send on the request, by a handler or directly.
DoSend(init) ==
  LET r == Send(accepted, rRequest, init) IN
    /\ negotiations' = negotiations + (IF accepted = "undefined" THEN 1 ELSE 0)
    /\ accepted' = accepted
    /\ calls' = Append(calls, [op |-> "send", cached |-> accepted, init |-> init,
                               kind |-> r.kind,
                               contentType |-> IF r.kind = "returned"
                                                 THEN r.response.contentType
                                                 ELSE "undefined",
                               status |-> IF r.kind = "returned"
                                            THEN r.response.status ELSE 406])

InitNegotiate ==
  /\ ShutdownIdle
  /\ DefineIdle
  /\ TasksIdle
  /\ InitDecodeIdle
  /\ routes = <<>>
  /\ table = <<>>
  /\ rRequest \in [ method : {"GET"}, url : {"/api"}, accept : AcceptHeaders ]
  /\ rpc = "calls"
  /\ idx = 1
  /\ tested = <<>>
  /\ dispatched = <<>>
  /\ invoked = <<>>
  /\ accepted = "undefined"
  /\ negotiations = 0
  /\ calls = <<>>
  /\ thrown = NoOutcome
  /\ result = NoOutcome

\* The application calls assertAcceptsSupported(request).
CallAssertAcceptsSupported ==
  /\ rpc = "calls"
  /\ Len(calls) < MaxCalls
  /\ DoAssertAcceptsSupported
  /\ UNCHANGED << decodeVars, defineVars, tasks, shutdownVars >>
  /\ UNCHANGED << dispatched, routes, table, rRequest, rpc, idx, tested, invoked, thrown, result >>

\* The application calls send(request, data, responseInit).
CallSend ==
  /\ rpc = "calls"
  /\ Len(calls) < MaxCalls
  /\ \E init \in SendInits : DoSend(init)
  /\ UNCHANGED << decodeVars, defineVars, tasks, shutdownVars >>
  /\ UNCHANGED << dispatched, routes, table, rRequest, rpc, idx, tested, invoked, thrown, result >>

NextNegotiate ==
  \/ CallAssertAcceptsSupported
  \/ CallSend

SpecNegotiate == InitNegotiate /\ [][NextNegotiate]_vars

\* ------------------------------------------------------- route table, router
\* Largest number of entries of a compiled route table.
MaxRoutes == 2

\* Path patterns, request paths, and which pattern matches which path
\* (URLPattern.test / exec).
Patterns == { "/api", "/api/:id", "/:name", "/*" }
Urls == { "/api", "/api/1", "/unknown" }
Matches(pattern, url) ==
  CASE pattern = "/api" -> url = "/api"
    [] pattern = "/api/:id" -> url = "/api/1"
    [] pattern = "/:name" -> url \in { "/api", "/unknown" }
    [] pattern = "/*" -> TRUE
    [] OTHER -> FALSE

\* request.method values.
Methods == { "GET", "POST", "PUT", "DELETE", "PATCH", "HEAD", "patch" }

\* The keys a per-method mapping may carry.
MethodKeys ==
  { "GET", "get", "Get", "POST", "post", "PUT", "put", "DELETE", "delete",
    "PATCH", "patch" }

\* A Route: a single handler, or a per-method mapping from some keys to
\* handlers (the handler under key k is named k).
FunctionRoute == [kind |-> "function", id |-> "handler"]
MethodsRoute(keys) == [kind |-> "methods", map |-> [k \in keys |-> k]]
Routes == { FunctionRoute } \cup { MethodsRoute(keys) : keys \in SUBSET MethodKeys }

\* handlers.K: the handler under key K, "undefined" without one.
Lookup(handlers, key) ==
  IF key \in DOMAIN handlers.map THEN handlers.map[key] ELSE "undefined"

\* a || b on handlers.
OrElse(a, b) == IF a # "undefined" THEN a ELSE b

\* buildMethodsHandler with the lowercase key looked up first.
BuildMethodsHandlerLowercaseFirst(handlers) ==
  IF handlers.kind = "function" THEN handlers
  ELSE [kind |-> "closure",
        GET |-> OrElse(Lookup(handlers, "get"), Lookup(handlers, "GET")),
        POST |-> OrElse(Lookup(handlers, "post"), Lookup(handlers, "POST")),
        PUT |-> OrElse(Lookup(handlers, "put"), Lookup(handlers, "PUT")),
        DELETE |-> OrElse(Lookup(handlers, "delete"), Lookup(handlers, "DELETE")),
        PATCH |-> OrElse(Lookup(handlers, "patch"), Lookup(handlers, "PATCH"))]

\* buildMethodsHandler: a function is returned as it is; a mapping becomes a
\* closure over the five handlers, uppercase key first.
BuildMethodsHandler(handlers) ==
  IF handlers.kind = "function" THEN handlers
  ELSE [kind |-> "closure",
        GET |-> OrElse(Lookup(handlers, "GET"), Lookup(handlers, "get")),
        POST |-> OrElse(Lookup(handlers, "POST"), Lookup(handlers, "post")),
        PUT |-> OrElse(Lookup(handlers, "PUT"), Lookup(handlers, "put")),
        DELETE |-> OrElse(Lookup(handlers, "DELETE"), Lookup(handlers, "delete")),
        PATCH |-> OrElse(Lookup(handlers, "PATCH"), Lookup(handlers, "patch"))]

\* Calling a dispatch function: the handler it invokes, "undefined" when it
\* answers 405 itself.
Dispatch(dispatch, method) ==
  IF dispatch.kind = "function" THEN dispatch.id
  ELSE CASE method = "GET" -> dispatch.GET
         [] method = "POST" -> dispatch.POST
         [] method = "PUT" -> dispatch.PUT
         [] method = "DELETE" -> dispatch.DELETE
         [] method = "PATCH" -> dispatch.PATCH
         [] OTHER -> "undefined"

MethodNotAllowed == ResponseJson(405, "method not allowed")
NotFound == ResponseJson(404, "not found")

\* compileRoutes with every entry put before the earlier ones.
CompileRoutesReversed(flatRoutes) ==
  [i \in 1..Len(flatRoutes) |->
     [pattern |-> flatRoutes[Len(flatRoutes) + 1 - i].pattern,
      handler |-> BuildMethodsHandler(flatRoutes[Len(flatRoutes) + 1 - i].route)]]

\* compileRoutes on a flat mapping (its entries in key order): one
\* (pattern, dispatch function) pair per entry, in the same order.
CompileRoutes(flatRoutes) ==
  [i \in 1..Len(flatRoutes) |->
     [pattern |-> flatRoutes[i].pattern,
      handler |-> BuildMethodsHandler(flatRoutes[i].route)]]

\* Flat route mappings of at most n entries over the given routes: the keys
\* of one mapping are distinct.
FlatRoutes(n, entries) ==
  { f \in UNION { [1..k -> [pattern : Patterns, route : entries]] : k \in 0..n } :
      \A i, j \in 1..Len(f) : i # j => f[i].pattern # f[j].pattern }

\* The Route entries of the routed tables.
RouterRoutes ==
  { FunctionRoute, MethodsRoute({"GET"}), MethodsRoute({"get", "POST"}) }

\* The Accept headers of the routed requests: absent, empty, or one range.
RouterAcceptHeaders == { h \in AcceptHeaders : Len(h.entries) <= 1 }

InitRouter ==
  /\ ShutdownIdle
  /\ DefineIdle
  /\ TasksIdle
  /\ InitDecodeIdle
  /\ routes \in FlatRoutes(MaxRoutes, RouterRoutes)
  /\ table = CompileRoutes(routes)
  /\ rRequest \in [ method : {"GET", "POST", "HEAD"}, url : Urls,
                    accept : RouterAcceptHeaders ]
  /\ rpc = "accept"
  /\ idx = 1
  /\ tested = <<>>
  /\ dispatched = <<>>
  /\ invoked = <<>>
  /\ accepted = "undefined"
  /\ negotiations = 0
  /\ calls = <<>>
  /\ thrown = NoOutcome
  /\ result = NoOutcome

\* router's step 1 going on to the route matching after a failed accept check.
RouterAcceptThenRoutes ==
  /\ rpc = "accept"
  /\ IF rRequest.accept.present
       THEN DoAssertAcceptsSupported
       ELSE UNCHANGED << accepted, negotiations, calls >>
  /\ rpc' = "match"
  /\ UNCHANGED << decodeVars, defineVars, tasks, shutdownVars >>
  /\ UNCHANGED << dispatched, routes, table, rRequest, idx, tested, invoked, thrown, result >>

\* router, step 1: with an Accept header, assertAcceptsSupported; its
\* ResponseError's response is returned at once.
RouterAccept ==
  /\ rpc = "accept"
  /\ IF rRequest.accept.present
       THEN /\ DoAssertAcceptsSupported
            /\ LET a == AssertAcceptsSupported(rRequest) IN
                 IF a.kind = "thrown"
                   THEN /\ result' = [kind |-> "returned", response |-> a.error.response]
                        /\ rpc' = "done"
                   ELSE /\ result' = result
                        /\ rpc' = "match"
       ELSE /\ rpc' = "match"
            /\ UNCHANGED << accepted, negotiations, calls, result >>
  /\ UNCHANGED << decodeVars, defineVars, tasks, shutdownVars >>
  /\ UNCHANGED << dispatched, routes, table, rRequest, idx, tested, invoked, thrown >>

\* router's loop: the next pattern does not match the URL.
RouterTestMiss ==
  /\ rpc = "match"
  /\ idx <= Len(table)
  /\ ~Matches(table[idx].pattern, rRequest.url)
  /\ tested' = Append(tested, idx)
  /\ idx' = idx + 1
  /\ UNCHANGED << decodeVars, defineVars, tasks, shutdownVars >>
  /\ UNCHANGED << dispatched, routes, table, rRequest, rpc, invoked, accepted, negotiations, calls,
                  thrown, result >>

\* router's loop going on to the next pattern when the matching route has no
\* handler for the method.
RouterTestMatchFallsThrough ==
  /\ rpc = "match"
  /\ idx <= Len(table)
  /\ Matches(table[idx].pattern, rRequest.url)
  /\ tested' = Append(tested, idx)
  /\ dispatched' = Append(dispatched, idx)
  /\ LET h == Dispatch(table[idx].handler, rRequest.method) IN
       IF h = "undefined"
         THEN /\ result' = result
              /\ rpc' = rpc
              /\ idx' = idx + 1
              /\ invoked' = invoked
         ELSE /\ result' = result
              /\ rpc' = "handler"
              /\ idx' = idx
              /\ invoked' = Append(invoked, << idx, h >>)
  /\ UNCHANGED << decodeVars, defineVars, tasks, shutdownVars >>
  /\ UNCHANGED << routes, table, rRequest, accepted, negotiations, calls, thrown >>

\* router's loop: the next pattern matches; its dispatch function is called
\* and either invokes a handler or answers 405.
RouterTestMatch ==
  /\ rpc = "match"
  /\ idx <= Len(table)
  /\ Matches(table[idx].pattern, rRequest.url)
  /\ tested' = Append(tested, idx)
  /\ dispatched' = Append(dispatched, idx)
  /\ LET h == Dispatch(table[idx].handler, rRequest.method) IN
       IF h = "undefined"
         THEN /\ result' = [kind |-> "returned", response |-> MethodNotAllowed]
              /\ rpc' = "done"
              /\ invoked' = invoked
         ELSE /\ result' = result
              /\ rpc' = "handler"
              /\ invoked' = Append(invoked, << idx, h >>)
  /\ UNCHANGED << decodeVars, defineVars, tasks, shutdownVars >>
  /\ UNCHANGED << routes, table, rRequest, idx, accepted, negotiations, calls, thrown >>

\* router's loop has ended without a match: 404.
RouterNotFound ==
  /\ rpc = "match"
  /\ idx > Len(table)
  /\ result' = [kind |-> "returned", response |-> NotFound]
  /\ rpc' = "done"
  /\ UNCHANGED << decodeVars, defineVars, tasks, shutdownVars >>
  /\ UNCHANGED << dispatched, routes, table, rRequest, idx, tested, invoked, accepted, negotiations,
                  calls, thrown >>

\* What a handler may return: a Response of its own, or nothing.
HandlerResponse == [status |-> 200, body |-> "handler", contentType |-> "text/plain"]
HandlerReturnValues == { [void |-> FALSE, response |-> HandlerResponse],
                         [void |-> TRUE, response |-> None] }

\* What a handler may throw: a Response, a ResponseError, any other error.
HandlerThrowValues ==
  { [kind |-> "Response", response |-> [status |-> 403, body |-> "thrown", contentType |-> ""]],
    ResponseError(400, "rejected by handler"),
    [kind |-> "Error", response |-> None] }

\* router's catch with every thrown value turned into a response.
RouterCatchAll(error) ==
  IF error.kind = "Response" THEN [kind |-> "returned", response |-> error.response]
  ELSE IF error.kind = "ResponseError"
    THEN [kind |-> "returned", response |-> error.response]
  ELSE [kind |-> "returned", response |-> ResponseJson(500, "internal error")]

\* router's catch: a thrown Response is returned, a ResponseError's response is
\* returned, anything else is thrown on.
RouterCatch(error) ==
  IF error.kind = "Response" THEN [kind |-> "returned", response |-> error.response]
  ELSE IF error.kind = "ResponseError"
    THEN [kind |-> "returned", response |-> error.response]
  ELSE [kind |-> "thrown", error |-> error]

\* The handler returns: its response, or none() when it returns nothing.
HandlerReturns ==
  /\ rpc = "handler"
  /\ \E v \in HandlerReturnValues :
       result' = [kind |-> "returned", response |-> IF v.void THEN None ELSE v.response]
  /\ rpc' = "done"
  /\ UNCHANGED << decodeVars, defineVars, tasks, shutdownVars >>
  /\ UNCHANGED << dispatched, routes, table, rRequest, idx, tested, invoked, accepted, negotiations,
                  calls, thrown >>

\* The handler throws, with the router's catch dropping any other error and
\* its loop going on to the next pattern.
HandlerThrowsGoesOn ==
  /\ rpc = "handler"
  /\ \E e \in HandlerThrowValues :
       /\ thrown' = e
       /\ IF e.kind \in { "Response", "ResponseError" }
            THEN /\ result' = RouterCatch(e)
                 /\ rpc' = "done"
                 /\ idx' = idx
            ELSE /\ result' = result
                 /\ rpc' = "match"
                 /\ idx' = idx + 1
  /\ UNCHANGED << decodeVars, defineVars, tasks, shutdownVars >>
  /\ UNCHANGED << dispatched, routes, table, rRequest, tested, invoked, accepted, negotiations, calls >>

\* The handler throws.
HandlerThrows ==
  /\ rpc = "handler"
  /\ \E e \in HandlerThrowValues :
       /\ thrown' = e
       /\ result' = RouterCatch(e)
  /\ rpc' = "done"
  /\ UNCHANGED << decodeVars, defineVars, tasks, shutdownVars >>
  /\ UNCHANGED << dispatched, routes, table, rRequest, idx, tested, invoked, accepted, negotiations, calls >>

\* The handler returns send(request, data, responseInit), or throws what send throws.
HandlerSends ==
  /\ rpc = "handler"
  /\ \E init \in SendInits :
       /\ DoSend(init)
       /\ LET r == Send(accepted, rRequest, init) IN
            IF r.kind = "returned"
              THEN /\ result' = [kind |-> "returned", response |-> r.response]
                   /\ thrown' = thrown
              ELSE /\ result' = RouterCatch(r.error)
                   /\ thrown' = r.error
  /\ rpc' = "done"
  /\ UNCHANGED << decodeVars, defineVars, tasks, shutdownVars >>
  /\ UNCHANGED << dispatched, routes, table, rRequest, idx, tested, invoked >>

NextRouter ==
  \/ RouterAccept
  \/ RouterTestMiss
  \/ RouterTestMatch
  \/ RouterNotFound
  \/ HandlerReturns
  \/ HandlerThrows
  \/ HandlerSends

SpecRouter == InitRouter /\ [][NextRouter]_vars

\* The router over a table of one entry of any Route, for any request method
\* (no Accept header).
InitDispatch ==
  /\ ShutdownIdle
  /\ DefineIdle
  /\ TasksIdle
  /\ InitDecodeIdle
  /\ routes \in { << [pattern |-> p, route |-> r] >> : p \in { "/api", "/*" }, r \in Routes }
  /\ table = CompileRoutes(routes)
  /\ rRequest \in [ method : Methods, url : { "/api", "/unknown" },
                    accept : { [present |-> FALSE, entries |-> <<>>] } ]
  /\ rpc = "accept"
  /\ idx = 1
  /\ tested = <<>>
  /\ dispatched = <<>>
  /\ invoked = <<>>
  /\ accepted = "undefined"
  /\ negotiations = 0
  /\ calls = <<>>
  /\ thrown = NoOutcome
  /\ result = NoOutcome

SpecDispatch == InitDispatch /\ [][NextRouter]_vars

\* ------------------------------------------- a handled request, end to end
\* The requests of the end-to-end runs: a body or none, a Content-Length of
\* digits or none, a JSON Content-Type or none.
HandleRequests ==
  { r \in Requests :
      /\ r.contentLength.kind \in { "absent", "digits" }
      /\ r.contentType \in { "", "application/json" }
      /\ r.charset = "absent"
      /\ r.schema = "none" }

\* Their Accept headers: absent, or one range of full quality.
HandleAcceptHeaders ==
  { h \in RouterAcceptHeaders : \A i \in 1..Len(h.entries) : h.entries[i].q = 10 }

\* The router over one route whose handler awaits receive(request) and then
\* returns send(request, data, responseInit).
InitHandle ==
  /\ ShutdownIdle
  /\ DefineIdle
  /\ TasksIdle
  /\ request \in HandleRequests
  /\ source = request.chunks
  /\ sourceLock = "none"
  /\ sourceRead = 0
  /\ body = "unset"
  /\ budget = 0
  /\ remaining = 0
  /\ reader = FALSE
  /\ queue = <<>>
  /\ closed = FALSE
  /\ yielded = <<>>
  /\ lastPull = "none"
  /\ bytes = <<>>
  /\ pc = "idle"
  /\ outcome = NoOutcome
  /\ routes = << [pattern |-> "/api", route |-> FunctionRoute] >>
  /\ table = CompileRoutes(routes)
  /\ rRequest \in [ method : {"POST"}, url : { "/api", "/unknown" },
                    accept : HandleAcceptHeaders ]
  /\ rpc = "accept"
  /\ idx = 1
  /\ tested = <<>>
  /\ dispatched = <<>>
  /\ invoked = <<>>
  /\ accepted = "undefined"
  /\ negotiations = 0
  /\ calls = <<>>
  /\ thrown = NoOutcome
  /\ result = NoOutcome

\* The handler calls receive(request).
HandlerReceives ==
  /\ rpc = "handler"
  /\ pc = "idle"
  /\ pc' = "start"
  /\ UNCHANGED << routerVars, defineVars, tasks, shutdownVars >>
  /\ UNCHANGED << request, source, sourceLock, sourceRead, body, budget, remaining,
                  reader, queue, closed, yielded, lastPull, bytes, outcome >>

\* receive has thrown inside the handler, which does not catch: the router's
\* catch gets the thrown value.
HandlerReceiveThrows ==
  /\ rpc = "handler"
  /\ pc = "done"
  /\ outcome.kind # "value"
  /\ thrown' = outcome
  /\ result' = RouterCatch(outcome)
  /\ rpc' = "done"
  /\ UNCHANGED << decodeVars, defineVars, tasks, shutdownVars >>
  /\ UNCHANGED << dispatched, routes, table, rRequest, idx, tested, invoked, accepted,
                  negotiations, calls >>

\* receive has returned the decoded value: the handler sends it.
HandlerSendsReceived ==
  /\ pc = "done"
  /\ outcome.kind = "value"
  /\ HandlerSends

NextHandle ==
  \/ RouterAccept
  \/ RouterTestMiss
  \/ RouterTestMatch
  \/ RouterNotFound
  \/ HandlerReceives
  \/ NextDecode
  \/ HandlerReceiveThrows
  \/ HandlerSendsReceived

SpecHandle == InitHandle /\ [][NextHandle]_vars

\* ------------------------------------------------- route descriptions
\* A Routes object is the sequence of its (key, value) entries in property
\* order, every key once. A key is a path written as the sequence of its
\* segments ("" is << >>, "/users" is << "users" >>), so that the template
\* `${prefix}${path}` is the concatenation of two paths. A value is a Route or
\* an array of Routes objects.
MaxGroup == 2

\* The keys and prefixes of the descriptions.
PathKeys == { << >>, << "users" >> }
Prefixes == { << >>, << "api" >> }

\* The Route values of the descriptions: a handler, a per-method mapping.
LeafRoutes == { FunctionRoute, MethodsRoute({"GET"}) }

\* A Routes[] value.
RoutesArray(items) == [kind |-> "array", items |-> items]

\* The Routes objects of one entry whose value is a Route.
LeafDescriptions ==
  { << [key |-> k, value |-> v] >> : k \in PathKeys, v \in LeafRoutes }

\* The Routes objects inside an array: one entry whose value is a Route, or an
\* array of one such object in turn.
InnerDescriptions ==
  LeafDescriptions
  \cup { << [key |-> k, value |-> RoutesArray(<< a >>)] >> :
           k \in PathKeys, a \in LeafDescriptions }

\* The Routes objects handed to defineGroup: empty, or one entry whose value
\* is a Route, an array of up to one inner object, or an array of two objects
\* of a Route each.
GroupDescriptions ==
  { << >> }
  \cup LeafDescriptions
  \cup { << [key |-> k, value |-> RoutesArray(items)] >> :
           k \in PathKeys,
           items \in { << >> } \cup { << a >> : a \in InnerDescriptions }
                     \cup { << a, b >> : a, b \in LeafDescriptions } }

\* The lists of up to MaxGroup such objects.
GroupLists ==
  UNION { [1..n -> GroupDescriptions] : n \in 0..MaxGroup }

\* obj[key] = value with the first value of a key kept.
PutKeepsFirst(obj, key, value) ==
  IF \E i \in 1..Len(obj) : obj[i].key = key
    THEN obj
    ELSE Append(obj, [key |-> key, value |-> value])

\* obj[key] = value: an existing property gets the new value where it stands,
\* a new one is added at the end.
Put(obj, key, value) ==
  IF \E i \in 1..Len(obj) : obj[i].key = key
    THEN [i \in 1..Len(obj) |->
            IF obj[i].key = key THEN [key |-> key, value |-> value] ELSE obj[i]]
    ELSE Append(obj, [key |-> key, value |-> value])

RECURSIVE ObjectAssign(_, _)
\* Object.assign(target, src): every property of src put into target, in order.
ObjectAssign(target, src) ==
  IF src = << >> THEN target
  ELSE ObjectAssign(Put(target, Head(src).key, Head(src).value), Tail(src))

RECURSIVE PrefixInto(_, _, _)
\* defineGroup's inner loop over the entries of one Routes object.
PrefixInto(prefixedRoutes, prefix, entries) ==
  IF entries = << >> THEN prefixedRoutes
  ELSE PrefixInto(Put(prefixedRoutes, prefix \o Head(entries).key, Head(entries).value),
                  prefix, Tail(entries))

RECURSIVE DefineGroupInto(_, _, _)
\* defineGroup's outer loop over the list.
DefineGroupInto(prefixedRoutes, prefix, list) ==
  IF list = << >> THEN prefixedRoutes
  ELSE DefineGroupInto(PrefixInto(prefixedRoutes, prefix, Head(list)), prefix, Tail(list))

\* defineGroup(prefix, group) for a list.
DefineGroup(prefix, list) == DefineGroupInto(<< >>, prefix, list)

RECURSIVE FlattenEntries(_, _, _)
RECURSIVE FlattenArrayUnprefixed(_, _, _)
RECURSIVE FlattenArray(_, _, _)

\* flattenRoutes' inner loop with the nested objects flattened under the
\* array's own key alone.
FlattenArrayUnprefixed(flatRoutes, items, fullPath) ==
  IF items = << >> THEN flatRoutes
  ELSE FlattenArrayUnprefixed(
         ObjectAssign(flatRoutes,
                      FlattenEntries(<< >>, Head(items),
                                     IF fullPath = << >> THEN fullPath
                                     ELSE << fullPath[Len(fullPath)] >>)),
         Tail(items), fullPath)

\* flattenRoutes' inner loop over an array value: each element is flattened
\* under the full path and assigned over what is there.
FlattenArray(flatRoutes, items, fullPath) ==
  IF items = << >> THEN flatRoutes
  ELSE FlattenArray(ObjectAssign(flatRoutes, FlattenEntries(<< >>, Head(items), fullPath)),
                    Tail(items), fullPath)

\* flattenRoutes' outer loop over the entries of a Routes object.
FlattenEntries(flatRoutes, entries, parentPath) ==
  IF entries = << >> THEN flatRoutes
  ELSE LET fullPath == parentPath \o Head(entries).key
           route == Head(entries).value
       IN FlattenEntries(IF route.kind = "array"
                           THEN FlattenArray(flatRoutes, route.items, fullPath)
                           ELSE Put(flatRoutes, fullPath, route),
                         Tail(entries), parentPath)

\* flattenRoutes(routes, parentPath).
FlattenRoutes(entries, parentPath) == FlattenEntries(<< >>, entries, parentPath)

\* Routes are defined: a prefix and a list for defineGroup.
InitDefine ==
  /\ ShutdownIdle
  /\ InitDecodeIdle
  /\ RouterIdle
  /\ TasksIdle
  /\ group \in [ prefix : Prefixes, list : GroupLists ]
  /\ defined = << >>
  /\ flattened = << >>
  /\ gpc = "group"

\* defineGroup(prefix, list) is called.
CallDefineGroup ==
  /\ gpc = "group"
  /\ defined' = DefineGroup(group.prefix, group.list)
  /\ gpc' = "defined"
  /\ UNCHANGED << decodeVars, routerVars, tasks, shutdownVars, group, flattened >>

\* flattenRoutes is called on the group (by compileRoutes).
CallFlattenRoutes ==
  /\ gpc = "defined"
  /\ flattened' = FlattenRoutes(defined, << >>)
  /\ gpc' = "flattened"
  /\ UNCHANGED << decodeVars, routerVars, tasks, shutdownVars, group, defined >>

NextDefine ==
  \/ CallDefineGroup
  \/ CallFlattenRoutes

SpecDefine == InitDefine /\ [][NextDefine]_vars

\* ------------------------------------------- requests handled at once
\* The server hands every request to router as a task of its own. A task is
\* the Request object with what router holds for it: its position, the table
\* entry tested next, the handler invoked, what router returned. The tasks
\* take their steps in any order (the steps of one request are at least as
\* fine as the points at which its handling awaits).
Tasks == { 1, 2 }

TaskRequests ==
  [ method : { "GET", "POST" }, url : { "/api", "/unknown" }, accept : HandleAcceptHeaders ]

\* request[acceptsSymbol]: the property is read on the task's own Request.
StoredType(ts, t) == ts[t].accepted

\* The negotiated type kept in one module-level variable for all requests.
StoreTypeShared(ts, t, contentType) ==
  [u \in DOMAIN ts |-> [ts[u] EXCEPT !.accepted = contentType]]

\* request[acceptsSymbol] = contentType: the property is set on the task's own
\* Request.
StoreType(ts, t, contentType) == [ts EXCEPT ![t].accepted = contentType]

\* Another request is between its first and its last step.
Overlaps(t) == \E u \in Tasks \ {t} : tasks[u].rpc \in { "match", "handler" }

InitConcurrent ==
  /\ ShutdownIdle
  /\ InitDecodeIdle
  /\ DefineIdle
  /\ routes \in FlatRoutes(1, RouterRoutes)
  /\ table = CompileRoutes(routes)
  /\ rRequest = [method |-> "GET", url |-> "/api", accept |-> [present |-> FALSE, entries |-> <<>>]]
  /\ rpc = "idle"
  /\ idx = 1
  /\ tested = <<>>
  /\ dispatched = <<>>
  /\ invoked = <<>>
  /\ accepted = "undefined"
  /\ negotiations = 0
  /\ calls = <<>>
  /\ thrown = NoOutcome
  /\ result = NoOutcome
  /\ tasks \in [ Tasks -> { [req |-> r, rpc |-> "accept", idx |-> 1, accepted |-> "undefined",
                            invoked |-> "undefined", overlapped |-> FALSE,
                            result |-> NoOutcome] : r \in TaskRequests } ]

\* router, step 1, for the task's request.
TaskAccept(t) ==
  /\ tasks[t].rpc = "accept"
  /\ LET a == AssertAcceptsSupported(tasks[t].req)
         seen == [tasks EXCEPT ![t].overlapped = @ \/ Overlaps(t)]
     IN tasks' =
          IF ~tasks[t].req.accept.present THEN [seen EXCEPT ![t].rpc = "match"]
          ELSE IF a.kind = "thrown"
            THEN [seen EXCEPT ![t].rpc = "done",
                              ![t].result = [kind |-> "returned",
                                             response |-> a.error.response]]
          ELSE [StoreType(seen, t, a.store) EXCEPT ![t].rpc = "match"]
  /\ UNCHANGED << decodeVars, routerVars, defineVars, shutdownVars >>

\* router's loop for the task's request: the next pattern does not match.
TaskTestMiss(t) ==
  /\ tasks[t].rpc = "match"
  /\ tasks[t].idx <= Len(table)
  /\ ~Matches(table[tasks[t].idx].pattern, tasks[t].req.url)
  /\ tasks' = [tasks EXCEPT ![t].idx = @ + 1, ![t].overlapped = @ \/ Overlaps(t)]
  /\ UNCHANGED << decodeVars, routerVars, defineVars, shutdownVars >>

\* router's loop for the task's request: the next pattern matches.
TaskTestMatch(t) ==
  /\ tasks[t].rpc = "match"
  /\ tasks[t].idx <= Len(table)
  /\ Matches(table[tasks[t].idx].pattern, tasks[t].req.url)
  /\ LET h == Dispatch(table[tasks[t].idx].handler, tasks[t].req.method)
         seen == [tasks EXCEPT ![t].overlapped = @ \/ Overlaps(t)]
     IN tasks' =
          IF h = "undefined"
            THEN [seen EXCEPT ![t].rpc = "done",
                              ![t].result = [kind |-> "returned",
                                             response |-> MethodNotAllowed]]
            ELSE [seen EXCEPT ![t].rpc = "handler", ![t].invoked = h]
  /\ UNCHANGED << decodeVars, routerVars, defineVars, shutdownVars >>

\* router's loop for the task's request has ended without a match.
TaskNotFound(t) ==
  /\ tasks[t].rpc = "match"
  /\ tasks[t].idx > Len(table)
  /\ tasks' = [tasks EXCEPT ![t].rpc = "done",
                            ![t].overlapped = @ \/ Overlaps(t),
                            ![t].result = [kind |-> "returned", response |-> NotFound]]
  /\ UNCHANGED << decodeVars, routerVars, defineVars, shutdownVars >>

\* The task's handler returns send(request, data), or throws what send throws.
TaskHandlerSends(t) ==
  /\ tasks[t].rpc = "handler"
  /\ LET r == Send(StoredType(tasks, t), tasks[t].req, NoInit) IN
       tasks' = [tasks EXCEPT ![t].rpc = "done",
                              ![t].overlapped = @ \/ Overlaps(t),
                              ![t].result = IF r.kind = "returned"
                                              THEN [kind |-> "returned",
                                                    response |-> r.response]
                                              ELSE RouterCatch(r.error)]
  /\ UNCHANGED << decodeVars, routerVars, defineVars, shutdownVars >>

NextConcurrent ==
  \E t \in Tasks :
    \/ TaskAccept(t)
    \/ TaskTestMiss(t)
    \/ TaskTestMatch(t)
    \/ TaskNotFound(t)
    \/ TaskHandlerSends(t)

SpecConcurrent == InitConcurrent /\ [][NextConcurrent]_vars

\* ---------------------------------------------------------------- shutdown
\* Largest number of registered shutdown listeners, and of calls of exit in
\* progress at once.
MaxListeners == 3
MaxExitCalls == 2

\* The lists of registered listeners: each one returns or throws (rejects)
\* when it is invoked.
ListenerLists ==
  UNION { [1..n -> [throws : BOOLEAN]] : n \in 0..MaxListeners }

\* The module is loaded, its listeners are registered with
\* addShutdownListener, and exitOnSignals has been called (stdin is a
\* terminal).
InitShutdown ==
  /\ InitDecodeIdle
  /\ RouterIdle
  /\ DefineIdle
  /\ TasksIdle
  /\ listeners \in ListenerLists
  /\ exiting = FALSE
  /\ signalsOn = TRUE
  /\ exitCalls = <<>>
  /\ invocations = [l \in 1..Len(listeners) |-> 0]
  /\ exited = FALSE

\* exit up to its first await: the statement of line 10 has no effect,
\* exiting is set, and the loop invokes the first listener and awaits it; with
\* no listener the loop is empty and Deno.exit is called.
ExitStarts ==
  /\ exiting' = TRUE
  /\ IF listeners = <<>>
       THEN /\ exited' = TRUE
            /\ UNCHANGED << exitCalls, invocations >>
       ELSE /\ invocations' = [invocations EXCEPT ![1] = @ + 1]
            /\ exitCalls' = Append(exitCalls, 1)
            /\ exited' = exited

\* The application calls exit(exitCode).
CallExit ==
  /\ ~exited
  /\ Len(exitCalls) < MaxExitCalls
  /\ ExitStarts
  /\ UNCHANGED << decodeVars, routerVars, defineVars, tasks, listeners, signalsOn >>

\* SIGINT or SIGTERM arrives and exit0 runs; with exiting set it returns at
\* once, which changes nothing; else it removes itself from both signals and
\* calls exit(0).
Signal ==
  /\ ~exited
  /\ signalsOn
  /\ ~exiting
  /\ Len(exitCalls) < MaxExitCalls
  /\ signalsOn' = FALSE
  /\ ExitStarts
  /\ UNCHANGED << decodeVars, routerVars, defineVars, tasks, listeners >>

\* The listener a call of exit awaits has returned or thrown (the catch logs
\* what it threw): the loop invokes the next listener, or after the last one
\* Deno.exit is called.
ListenerSettles ==
  /\ ~exited
  /\ \E c \in 1..Len(exitCalls) :
       IF exitCalls[c] < Len(listeners)
         THEN /\ invocations' = [invocations EXCEPT ![exitCalls[c] + 1] = @ + 1]
              /\ exitCalls' = [exitCalls EXCEPT ![c] = @ + 1]
              /\ exited' = exited
         ELSE /\ exited' = TRUE
              /\ UNCHANGED << exitCalls, invocations >>
  /\ UNCHANGED << decodeVars, routerVars, defineVars, tasks, listeners, exiting, signalsOn >>

NextShutdown ==
  \/ CallExit
  \/ Signal
  \/ ListenerSettles

SpecShutdown == InitShutdown /\ [][NextShutdown]_vars

\* ================================================================ claims
\* All bytes of the request body, in order.
AllBytes == Flatten(request.chunks)

\* receive called the decoder (every header check passed).
DecoderCalled ==
  pc # "start" /\ ReceiveChecks(request, StreamOfRequestBody(request)) = NoOutcome

\* C1: for every budget N >= 0 and every chunking, the bounded stream never
\* yields more than N bytes, what it has yielded is always a prefix of the
\* source in order, and once it has closed (and once the decoder has drained
\* it) it has yielded exactly the first min(N, total) bytes.
C1_BoundedStreamYieldsPrefix ==
  (body = "bounded" /\ budget >= 0) =>
    /\ Len(yielded) <= budget
    /\ yielded = Prefix(AllBytes, Len(yielded))
    /\ closed => yielded = Prefix(AllBytes, Min(budget, Len(AllBytes)))
    /\ (pc = "done" /\ DecoderCalled) =>
         /\ closed
         /\ bytes = Prefix(AllBytes, Min(budget, Len(AllBytes)))

\* A body of several chunks, longer than a positive budget, has been truncated
\* and drained by the decoder.
C1_Witness ==
  /\ body = "bounded" /\ closed
  /\ budget > 0 /\ budget < Len(AllBytes)
  /\ Len(request.chunks) >= 2
  /\ pc = "done" /\ DecoderCalled
  /\ Len(bytes) = budget

\* C2: whenever the bounded stream is closed, the reader it acquired on the
\* source has been released (no reader held, the source not locked).
C2_ReaderReleasedWhenClosed ==
  (body = "bounded" /\ closed) => (~reader /\ sourceLock = "none")

\* C3: when the decoder fails on the bytes it was given, receive throws a
\* ResponseError, which the router's catch turns into a returned response.
C3_DecodeFailureBecomesResponse ==
  (pc = "done" /\ DecoderCalled /\ ParseFails(request, bytes)) =>
    /\ outcome.kind = "ResponseError"
    /\ RouterCatch(outcome).kind = "returned"

\* C4: a request with a body whose Content-Length is absent, non-numeric,
\* negative or not a safe integer is given the raw body: it is not rejected as
\* having no body, and the decoder reads every byte of it.
C4_UnrepresentableLength ==
  request.contentLength.kind \in { "absent", "text", "negative", "huge" }

C4_NoBoundingOnBadLength ==
  (request.hasBody /\ C4_UnrepresentableLength /\ pc # "start") =>
    /\ body = "raw"
    /\ (pc = "done" /\ DecoderCalled) => bytes = AllBytes

\* C5: the failures of receive in the claimed precedence, each with its status;
\* the value when none applies.
C5_Expected(r) ==
  IF ~r.hasBody THEN ResponseError(400, "missing body")
  ELSE IF r.contentType = "" THEN ResponseError(400, "missing content-type")
  ELSE IF r.charset # "absent" /\ r.charset \notin { "utf-8", "UTF-8" }
    THEN ResponseError(415, "unsupported charset")
  ELSE IF r.contentType \notin { "application/json", "Application/JSON" }
    THEN ResponseError(415, "unsupported content-type")
  ELSE IF r.schema = "fails" THEN ResponseError(400, "invalid request payload")
  ELSE [kind |-> "value", validated |-> r.schema # "none"]

\* What receive did, without the returned data.
C5_Observed ==
  IF outcome.kind = "value"
    THEN [kind |-> "value", validated |-> outcome.validated]
    ELSE outcome

\* C5: for every request, receive raises exactly the first applicable failure
\* of the fixed order, and returns the value when none applies.
C5_FirstFailureInOrder ==
  pc = "done" => C5_Observed = C5_Expected(request)

\* The Accept header of the routed request cannot be satisfied by any encoder.
C6_Unsatisfiable ==
  rRequest.accept.present /\ Accepts(rRequest.accept, encoders) = "undefined"

\* C6: a request whose Accept header cannot be satisfied gets the 406 response,
\* and at no point of its handling is a pattern tested, a dispatch function
\* called or a handler invoked.
C6_NotAcceptableBeforeRouting ==
  C6_Unsatisfiable =>
    /\ tested = <<>> /\ dispatched = <<>> /\ invoked = <<>>
    /\ rpc \in { "accept", "done" }
    /\ rpc = "done" =>
         result = [kind |-> "returned",
                   response |-> ResponseJson(406, "no acceptable content-type found")]

\* An unsatisfiable request has been answered although a route matches its URL.
C6_Witness ==
  /\ C6_Unsatisfiable
  /\ rpc = "done"
  /\ \E i \in 1..Len(table) : Matches(table[i].pattern, rRequest.url)

\* The declared (flat) routes whose pattern matches the request URL.
C7_Matching == { i \in 1..Len(routes) : Matches(routes[i].pattern, rRequest.url) }

\* C7: the dispatch function called for a request is that of the earliest
\* declared route whose pattern matches the URL, and no other; the choice is a
\* function of the table and the URL.
C7_FirstMatchWins ==
  /\ \A k \in 1..Len(dispatched) :
       /\ k = 1
       /\ C7_Matching # {}
       /\ LET first == CHOOSE i \in C7_Matching : \A j \in C7_Matching : i <= j
          IN /\ table[dispatched[k]].pattern = routes[first].pattern
             /\ table[dispatched[k]].handler = BuildMethodsHandler(routes[first].route)
             /\ \A j \in 1..(dispatched[k] - 1) :
                  ~Matches(table[j].pattern, rRequest.url)
  /\ (rpc \in { "handler", "done" } /\ ~C6_Unsatisfiable /\ C7_Matching # {}) =>
       dispatched # <<>>

\* Two declared routes match the URL, with different Routes, and the first
\* one's dispatch function was called.
C7_Witness ==
  /\ Len(routes) >= 2
  /\ Cardinality(C7_Matching) >= 2
  /\ routes[1].route # routes[2].route
  /\ dispatched = << 1 >>
  /\ rpc = "done"

\* The lowercase key of a recognized method.
C8_LowercaseKey(method) ==
  CASE method = "GET" -> "get"
    [] method = "POST" -> "post"
    [] method = "PUT" -> "put"
    [] method = "DELETE" -> "delete"
    [] method = "PATCH" -> "patch"
    [] OTHER -> "none"

\* The handler the claim names for a Route and a request method: the single
\* handler; else, for a recognized method, the one under the uppercase key or,
\* without it, under the lowercase key; "undefined" otherwise.
C8_Expected(route, method) ==
  IF route.kind = "function" THEN route.id
  ELSE IF method \notin { "GET", "POST", "PUT", "DELETE", "PATCH" } THEN "undefined"
  ELSE IF method \in DOMAIN route.map THEN route.map[method]
  ELSE IF C8_LowercaseKey(method) \in DOMAIN route.map
    THEN route.map[C8_LowercaseKey(method)]
  ELSE "undefined"

\* C8: a single handler is compiled to itself and invoked for any method; a
\* per-method mapping invokes the handler under the uppercase key, else the
\* lowercase key, of a recognized method, and otherwise answers 405
\* "method not allowed" without invoking a handler.
C8_PerMethodDispatch ==
  /\ \A i \in 1..Len(routes) :
       routes[i].route.kind = "function" => table[i].handler = routes[i].route
  /\ \A k \in 1..Len(dispatched) :
       LET i == dispatched[k]
           expected == C8_Expected(routes[i].route, rRequest.method)
       IN IF expected = "undefined"
            THEN /\ invoked = <<>>
                 /\ rpc = "done"
                 /\ result = [kind |-> "returned",
                              response |-> ResponseJson(405, "method not allowed")]
            ELSE invoked = << << i, expected >> >>

\* A mapping with both the uppercase and the lowercase key of the request's
\* method has been dispatched to the uppercase one.
C8_Witness ==
  /\ Len(routes) = 1
  /\ routes[1].route.kind = "methods"
  /\ { "POST", "post" } \subseteq DOMAIN routes[1].route.map
  /\ rRequest.method = "POST"
  /\ invoked = << << 1, "POST" >> >>

\* C9: when the handler throws, the router returns the thrown Response itself,
\* returns the response a ResponseError carries, and for any other error
\* returns nothing and throws that same error.
C9_ErrorRecovery ==
  (rpc = "done" /\ thrown # NoOutcome) =>
    CASE thrown.kind = "Response" ->
           result = [kind |-> "returned", response |-> thrown.response]
      [] thrown.kind = "ResponseError" ->
           result = [kind |-> "returned", response |-> thrown.response]
      [] OTHER ->
           result = [kind |-> "thrown", error |-> thrown]

\* A handler has thrown an unclassified error and the router has thrown it on.
C9_Witness ==
  /\ rpc = "done"
  /\ thrown.kind = "Error"
  /\ result.kind = "thrown"
  /\ invoked # <<>>

\* The MIME type send alone (nothing stored on the request) chooses.
C10_SendAlone ==
  LET r == Send("undefined", rRequest, CHOOSE init \in SendInits : TRUE) IN
  IF r.kind = "returned" THEN r.response.contentType ELSE "undefined"

\* C10: a send that follows an assertAcceptsSupported on the same request
\* answers with the MIME type send alone would have chosen (and fails with 406
\* exactly when send alone would).
C10_AssertThenSendSameType ==
  \A i \in 1..Len(calls) :
    (calls[i].op = "send" /\ \E j \in 1..(i - 1) : calls[j].op = "assert") =>
      calls[i].contentType = C10_SendAlone

\* assertAcceptsSupported stored a type other than the first encoder's, and the
\* send after it used the stored type.
C10_Witness ==
  /\ Len(calls) >= 2
  /\ calls[1].op = "assert" /\ calls[1].kind = "returned"
  /\ calls[2].op = "send" /\ calls[2].cached # "undefined"
  /\ calls[2].contentType # encoders[1]

\* C11: over any sequence of assertAcceptsSupported and send calls on one
\* request, the negotiation against the encoders (a call of accepts) is
\* performed at most once.
C11_NegotiatedAtMostOnce == negotiations <= 1

\* The steps of one handled request, as steps of the model.
NegotiationStep == negotiations' # negotiations
MatchingStep == tested' # tested
InvocationStep == invoked' # invoked
DecodeStep == decodeVars' # decodeVars
EncodeStep == Len(calls') > Len(calls) /\ calls'[Len(calls')].op = "send"
SendCalled == \E i \in 1..Len(calls) : calls[i].op = "send"

\* Route matching, then handler invocation, then decode/encode.
C12_RoutingOrder ==
  /\ MatchingStep => (invoked = <<>> /\ pc = "idle" /\ ~SendCalled)
  /\ InvocationStep => (pc = "idle" /\ ~SendCalled)
  /\ (DecodeStep \/ EncodeStep) => (tested # <<>> /\ invoked # <<>>)

\* C12 as stated: in every handled request the steps occur in the order
\* negotiation, route matching, handler invocation, decode/encode; no
\* negotiation takes place once a pattern has been tested or the handler has
\* started.
C12_FixedOrder ==
  [][ /\ C12_RoutingOrder
      /\ NegotiationStep => (tested = <<>> /\ invoked = <<>> /\ pc = "idle" /\ ~SendCalled)
    ]_vars

\* C12, amended: route matching precedes handler invocation, which precedes
\* decode/encode; a request with an Accept header is negotiated before any
\* pattern is tested and never afterwards; a request without one is not
\* negotiated by the router but inside send, after the handler has started.
C12_OrderByAcceptHeader ==
  [][ /\ C12_RoutingOrder
      /\ NegotiationStep =>
           IF rRequest.accept.present
             THEN rpc = "accept" /\ tested = <<>> /\ invoked = <<>> /\ pc = "idle"
                  /\ ~SendCalled
             ELSE rpc = "handler" /\ invoked # <<>> /\ EncodeStep
    ]_vars

\* A request with an Accept header went through every step: negotiated once,
\* matched, its handler invoked, its body decoded, the value sent.
C12_Witness ==
  /\ rpc = "done"
  /\ rRequest.accept.present
  /\ negotiations = 1
  /\ tested # <<>>
  /\ invoked # <<>>
  /\ pc = "done"
  /\ outcome.kind = "value"
  /\ SendCalled
  /\ result.kind = "returned"

\* The type send works with: the one stored on the request or, without one,
\* the outcome of negotiating the Accept header against the encoders.
C14_Negotiated(c) ==
  IF c.cached # "undefined" THEN c.cached ELSE Accepts(rRequest.accept, encoders)

\* C14: every call of send either returns a response whose Content-Type is the
\* negotiated type (whatever Content-Type the caller's headers carry) and whose
\* status is the caller's, or 200 without one; or, when the negotiation yields
\* nothing, throws the 406 ResponseError and returns no response.
C14_SendContract ==
  \A i \in 1..Len(calls) :
    calls[i].op = "send" =>
      LET negotiated == C14_Negotiated(calls[i]) IN
        IF negotiated = "undefined"
          THEN calls[i].kind = "thrown" /\ calls[i].status = 406
          ELSE /\ calls[i].kind = "returned"
               /\ calls[i].contentType = negotiated
               /\ calls[i].status = IF calls[i].init.hasStatus
                                      THEN calls[i].init.status ELSE 200

\* send was called with a status and a Content-Type of the caller's own and
\* returned a response of another, negotiated type.
C14_Witness ==
  \E i \in 1..Len(calls) :
    /\ calls[i].op = "send"
    /\ calls[i].init.hasStatus
    /\ calls[i].init.contentType = "text/plain"
    /\ calls[i].kind = "returned"
    /\ calls[i].contentType = "application/yaml"
    /\ calls[i].status = 201

\* C15: a request whose Accept header (if any) can be satisfied and whose URL
\* no pattern of the table matches is answered 404 {"error": "not found"}
\* with no dispatch function called and no handler invoked; and the router
\* answers that 404 only when no pattern matches.
C15_RouteNotFound ==
  /\ (rpc = "done" /\ ~C6_Unsatisfiable /\ C7_Matching = {}) =>
       /\ result = [kind |-> "returned", response |-> ResponseJson(404, "not found")]
       /\ dispatched = <<>>
       /\ invoked = <<>>
  /\ (result.kind = "returned" /\ result.response = ResponseJson(404, "not found")) =>
       C7_Matching = {}

\* Every pattern of a non-empty table was tested, none matched, 404.
C15_Witness ==
  /\ rpc = "done"
  /\ Len(table) = MaxRoutes
  /\ Len(tested) = MaxRoutes
  /\ C7_Matching = {}
  /\ result = [kind |-> "returned", response |-> ResponseJson(404, "not found")]

\* The canonical (uppercase) form of a method key.
C16_Canonical(key) ==
  CASE key \in { "GET", "get", "Get" } -> "GET"
    [] key \in { "POST", "post" } -> "POST"
    [] key \in { "PUT", "put" } -> "PUT"
    [] key \in { "DELETE", "delete" } -> "DELETE"
    [] key \in { "PATCH", "patch" } -> "PATCH"
    [] OTHER -> key

\* C16: when the dispatch function of a per-method mapping is called for a
\* request with a recognized method, and the mapping has a handler under some
\* case variant of that method's name, such a handler is invoked (the request
\* does not get the 405).
C16_CaseInsensitiveKeys ==
  \A k \in 1..Len(dispatched) :
    LET route == routes[dispatched[k]].route IN
      ( /\ route.kind = "methods"
        /\ rRequest.method \in { "GET", "POST", "PUT", "DELETE", "PATCH" }
        /\ \E key \in DOMAIN route.map : C16_Canonical(key) = rRequest.method )
      => /\ Len(invoked) = 1
         /\ C16_Canonical(invoked[1][2]) = rRequest.method

\* C19: from a state in which a bounded stream's remaining budget is zero, no
\* step reads from the source or takes or releases its lock, nothing more is
\* put into the derived stream, and a pull closes the derived stream.
C19_NoReadAfterBudgetSpent ==
  [][ (body = "bounded" /\ remaining = 0) =>
        /\ source' = source
        /\ sourceRead' = sourceRead
        /\ sourceLock' = sourceLock
        /\ yielded' = yielded
        /\ remaining' = 0
        /\ (lastPull' # lastPull \/ closed' # closed) =>
             (closed' /\ lastPull' = "exhausted")
    ]_vars

\* A budget was spent to zero, the next pull closed the stream, and chunks are
\* left unread in the source.
C19_Witness ==
  /\ body = "bounded"
  /\ budget > 0
  /\ remaining = 0
  /\ Len(yielded) = budget
  /\ lastPull = "exhausted"
  /\ closed
  /\ source # <<>>
  /\ pc = "done"

\* C20: the remaining budget of a bounded stream that receive created from the
\* Content-Length header is never negative and never increases.
C20_RemainingNeverNegative ==
  [][ body' = "bounded" =>
        /\ remaining' >= 0
        /\ body = "bounded" => remaining' <= remaining
    ]_vars

\* The positions in defineGroup's list of the Routes objects with the key.
C17_Holders(key) ==
  { n \in 1..Len(group.list) :
      \E i \in 1..Len(group.list[n]) : group.list[n][i].key = key }

\* The value the n-th listed object has under the key.
C17_ValueIn(n, key) ==
  LET i == CHOOSE i \in 1..Len(group.list[n]) : group.list[n][i].key = key
  IN group.list[n][i].value

\* The result of defineGroup is a mapping whose keys are exactly the prefix
\* concatenated with each key of each listed object.
C17_PrefixedKeys ==
  /\ \A i, j \in 1..Len(defined) : defined[i].key = defined[j].key => i = j
  /\ { defined[i].key : i \in 1..Len(defined) }
       = UNION { { group.prefix \o group.list[n][i].key : i \in 1..Len(group.list[n]) } :
                 n \in 1..Len(group.list) }

\* C17 as stated: every key of defineGroup's result is the prefix concatenated
\* with a key of a listed object, and under a key that several listed objects
\* share the result has the value of the earliest of them (a later entry does
\* not override an earlier one).
C17_EarlierEntryKept ==
  gpc # "group" =>
    /\ C17_PrefixedKeys
    /\ \A key \in PathKeys : \A n \in C17_Holders(key) :
         (\A m \in C17_Holders(key) : n <= m) =>
           \E i \in 1..Len(defined) :
             /\ defined[i].key = group.prefix \o key
             /\ defined[i].value = C17_ValueIn(n, key)

\* C17, amended: every key of defineGroup's result is the prefix concatenated
\* with a key of a listed object, and under a key that several listed objects
\* share the result has the value of the latest of them (a later entry
\* overrides an earlier one).
C17_LaterEntryOverrides ==
  gpc # "group" =>
    /\ C17_PrefixedKeys
    /\ \A key \in PathKeys : \A n \in C17_Holders(key) :
         (\A m \in C17_Holders(key) : m <= n) =>
           \E i \in 1..Len(defined) :
             /\ defined[i].key = group.prefix \o key
             /\ defined[i].value = C17_ValueIn(n, key)

\* defineGroup has merged, under a prefix, two listed objects that have
\* different Routes under the same key.
C17_Witness ==
  /\ gpc = "defined"
  /\ group.prefix # << >>
  /\ \E key \in PathKeys : \E n, m \in C17_Holders(key) :
       n < m /\ C17_ValueIn(n, key) # C17_ValueIn(m, key)

RECURSIVE C18_Leaves(_, _)
RECURSIVE C18_LeavesOfArray(_, _)
\* The leaves of a nested Routes object in traversal order, each with the
\* concatenation of its enclosing keys and its own key.
C18_Leaves(entries, enclosing) ==
  IF entries = << >> THEN << >>
  ELSE LET e == Head(entries) IN
       (IF e.value.kind = "array"
          THEN C18_LeavesOfArray(e.value.items, enclosing \o e.key)
          ELSE << [key |-> enclosing \o e.key, value |-> e.value] >>)
       \o C18_Leaves(Tail(entries), enclosing)

\* The leaves of the elements of an array, in order.
C18_LeavesOfArray(items, enclosing) ==
  IF items = << >> THEN << >>
  ELSE C18_Leaves(Head(items), enclosing) \o C18_LeavesOfArray(Tail(items), enclosing)

\* C18: the result of flattenRoutes is a mapping without array values whose
\* keys are the full paths of the leaves of the nested object (all enclosing
\* keys and the leaf's own, concatenated) and whose value under a full path is
\* the Route of the last leaf in traversal order that has this full path.
C18_FlattenRoutes ==
  gpc = "flattened" =>
    LET leaves == C18_Leaves(defined, << >>) IN
      /\ \A i, j \in 1..Len(flattened) : flattened[i].key = flattened[j].key => i = j
      /\ \A i \in 1..Len(flattened) : flattened[i].value.kind # "array"
      /\ { flattened[i].key : i \in 1..Len(flattened) }
           = { leaves[j].key : j \in 1..Len(leaves) }
      /\ \A i \in 1..Len(flattened) : \A j \in 1..Len(leaves) :
           ( /\ leaves[j].key = flattened[i].key
             /\ \A k \in 1..Len(leaves) : leaves[k].key = leaves[j].key => k <= j )
           => flattened[i].value = leaves[j].value

\* flattenRoutes has flattened an object with an array inside an array, in
\* which a leaf two arrays deep and an earlier leaf have the same full path
\* and different Routes.
C18_Witness ==
  /\ gpc = "flattened"
  /\ \E i \in 1..Len(defined) :
       /\ defined[i].value.kind = "array"
       /\ \E a \in 1..Len(defined[i].value.items) :
            \E e \in 1..Len(defined[i].value.items[a]) :
              defined[i].value.items[a][e].value.kind = "array"
  /\ LET leaves == C18_Leaves(defined, << >>) IN
       \E j, k \in 1..Len(leaves) :
         j < k /\ leaves[j].key = leaves[k].key /\ leaves[j].value # leaves[k].value

\* What router answers a request that is handled with no other request in
\* handling (its handler sends, as the tasks' handlers do).
C13_Alone(tbl, req) ==
  LET contentType == Accepts(req.accept, encoders)
      matching == { i \in 1..Len(tbl) : Matches(tbl[i].pattern, req.url) }
  IN IF req.accept.present /\ contentType = "undefined"
       THEN ResponseJson(406, "no acceptable content-type found")
     ELSE IF matching = {} THEN ResponseJson(404, "not found")
     ELSE LET first == CHOOSE i \in matching : \A j \in matching : i <= j IN
          IF Dispatch(tbl[first].handler, req.method) = "undefined"
            THEN ResponseJson(405, "method not allowed")
            ELSE [status |-> 200, body |-> "encoded", contentType |-> contentType]

\* C13: in every interleaving of two requests through one router, no step
\* changes the route table (the codec maps are constants); a step of one
\* request changes nothing of the other request, the decision stored on it
\* included; the decision stored on a request is the outcome of its own
\* negotiation; and the response of a request is the one it gets alone.
C13_Isolation ==
  [][ /\ table' = table
      /\ routes' = routes
      /\ \E t \in Tasks : \A u \in Tasks \ {t} : tasks'[u] = tasks[u]
      /\ \A t \in Tasks :
           /\ tasks'[t].accepted \in { "undefined", Accepts(tasks[t].req.accept, encoders) }
           /\ tasks'[t].rpc = "done" =>
                tasks'[t].result = [kind |-> "returned",
                                    response |-> C13_Alone(table, tasks[t].req)]
    ]_vars

\* Two requests whose handlings overlapped were negotiated to different types,
\* and each got the response of its own type.
C13_Witness ==
  /\ \A t \in Tasks :
       /\ tasks[t].rpc = "done"
       /\ tasks[t].overlapped
       /\ tasks[t].accepted # "undefined"
       /\ tasks[t].result.kind = "returned"
       /\ tasks[t].result.response.contentType = tasks[t].accepted
  /\ tasks[1].accepted # tasks[2].accepted

\* receive rejected the request at one of its header checks.
C21_RejectedByHeaders ==
  /\ outcome.kind = "ResponseError"
  /\ outcome.response.body \in
       { "missing content-type", "unsupported charset", "unsupported content-type" }

\* C21: the body is read only when the Content-Type, charset and decoder
\* checks have passed; for a request rejected by one of them the request body
\* has not been locked and none of its bytes has been read.
C21_BodyUntouchedWhenRejected ==
  C21_RejectedByHeaders => (sourceLock = "none" /\ sourceRead = 0)

\* C22: at most one dispatch function is called and at most one handler
\* invoked per request; the pattern whose dispatch function was called is the
\* last one tested, so that none is tested or called after it, whatever the
\* dispatch function returned or threw.
C22_AtMostOneDispatch ==
  /\ Len(dispatched) <= 1
  /\ Len(invoked) <= 1
  /\ dispatched # <<>> =>
       /\ rpc \in { "handler", "done" }
       /\ tested[Len(tested)] = dispatched[1]
       /\ \A k \in 1..Len(invoked) : invoked[k][1] = dispatched[1]

\* The first of two matching routes is a per-method mapping without the
\* request's method: the request got its 405, and the second route's dispatch
\* function (a handler for any method) was not called.
C22_Witness ==
  /\ rpc = "done"
  /\ Len(routes) >= 2
  /\ { 1, 2 } \subseteq C7_Matching
  /\ routes[1].route.kind = "methods"
  /\ routes[2].route.kind = "function"
  /\ dispatched = << 1 >>
  /\ tested = << 1 >>
  /\ invoked = <<>>
  /\ result = [kind |-> "returned", response |-> ResponseJson(405, "method not allowed")]

\* C23: over every interleaving of exit calls and signals, each registered
\* shutdown listener is invoked at most once, and Deno.exit is called only
\* when every listener has been invoked (the listeners after one that throws
\* included).
C23_ListenersOnceThenExit ==
  /\ \A l \in 1..Len(listeners) : invocations[l] <= 1
  /\ exited => \A l \in 1..Len(listeners) : invocations[l] >= 1

====
